---- MODULE Spec2Model ----
(***************************************************************************)
(* Model of src/model_data.rs: ModelData::norm, ModelData::predict and     *)
(* ModelData::norm_predict, run by callers that share one loaded model.    *)
(*                                                                         *)
(* f32 values are modelled exactly.  A finite value is n * 2^e with n odd  *)
(* (or n = 0, e = 0); the other classes are NaN, +Inf and -Inf.  Every     *)
(* value the model draws is small enough that each intermediate result is  *)
(* exactly representable in binary32, so IEEE-754 arithmetic coincides     *)
(* with the exact arithmetic below.  The two zeros compare equal and no    *)
(* operation of the program tells them apart; they are one value here.     *)
(***************************************************************************)
EXTENDS Integers, Sequences, FiniteSets, TLC

(***************************************************************************)
(* Bounds of the model.                                                    *)
(***************************************************************************)
MaxFields == 2

(***************************************************************************)
(* f32                                                                     *)
(***************************************************************************)
RECURSIVE Pow2(_)
Pow2(k) == IF k = 0 THEN 1 ELSE 2 * Pow2(k - 1)

RECURSIVE Fin(_, _)
Fin(n, e) ==
    IF n = 0 THEN [cls |-> "Finite", n |-> 0, e |-> 0]
    ELSE IF n % 2 = 0 THEN Fin(n \div 2, e + 1)
    ELSE [cls |-> "Finite", n |-> n, e |-> e]

F(k) == Fin(k, 0)
Half == Fin(1, -1)
Zero == F(0)
NaN  == [cls |-> "NaN", n |-> 0, e |-> 0]
PInf == [cls |-> "PInf", n |-> 0, e |-> 0]
NInf == [cls |-> "NInf", n |-> 0, e |-> 0]

Abs(k) == IF k < 0 THEN 0 - k ELSE k
IsInf(x) == x.cls \in {"PInf", "NInf"}
\* -1, 0 or 1; not used on NaN
Sign(x) ==
    CASE x.cls = "PInf" -> 1
      [] x.cls = "NInf" -> -1
      [] x.cls = "Finite" -> IF x.n > 0 THEN 1 ELSE IF x.n < 0 THEN -1 ELSE 0
InfOf(s) == IF s > 0 THEN PInf ELSE NInf

FNeg(x) ==
    CASE x.cls = "NaN" -> NaN
      [] x.cls = "PInf" -> NInf
      [] x.cls = "NInf" -> PInf
      [] x.cls = "Finite" -> Fin(0 - x.n, x.e)

FAdd(x, y) ==
    CASE x.cls = "NaN" \/ y.cls = "NaN" -> NaN
      [] IsInf(x) /\ IsInf(y) -> IF x.cls = y.cls THEN x ELSE NaN
      [] IsInf(x) /\ ~IsInf(y) -> x
      [] ~IsInf(x) /\ IsInf(y) -> y
      [] OTHER ->
            LET e == IF x.e < y.e THEN x.e ELSE y.e
            IN  Fin(x.n * Pow2(x.e - e) + y.n * Pow2(y.e - e), e)

FSub(x, y) == FAdd(x, FNeg(y))

FMul(x, y) ==
    CASE x.cls = "NaN" \/ y.cls = "NaN" -> NaN
      [] IsInf(x) \/ IsInf(y) ->
            IF Sign(x) * Sign(y) = 0 THEN NaN ELSE InfOf(Sign(x) * Sign(y))
      [] OTHER -> Fin(x.n * y.n, x.e + y.e)

\* The quotient of two finite values is taken only where it is exact (the
\* divisor's odd part divides the dividend's); the model draws no other pair.
FDiv(x, y) ==
    CASE x.cls = "NaN" \/ y.cls = "NaN" -> NaN
      [] IsInf(x) /\ IsInf(y) -> NaN
      [] IsInf(x) /\ ~IsInf(y) -> InfOf(IF Sign(y) < 0 THEN 0 - Sign(x) ELSE Sign(x))
      [] ~IsInf(x) /\ IsInf(y) -> Zero
      [] x.cls = "Finite" /\ y.cls = "Finite" /\ y.n = 0 ->
            IF x.n = 0 THEN NaN ELSE InfOf(Sign(x))
      [] x.cls = "Finite" /\ y.cls = "Finite" /\ y.n # 0 /\ x.n % Abs(y.n) = 0 ->
            Fin((x.n \div Abs(y.n)) * Sign(y), x.e - y.e)

\* x >= 0.0
FGeZero(x) ==
    CASE x.cls = "NaN" -> FALSE
      [] x.cls = "PInf" -> TRUE
      [] x.cls = "NInf" -> FALSE
      [] x.cls = "Finite" -> x.n >= 0


(***************************************************************************)
(* Result<T, Error> and the Error values the program builds.               *)
(***************************************************************************)
Ok(v)  == [kind |-> "Ok", val |-> v]
Err(e) == [kind |-> "Err", err |-> e]
Panic  == [kind |-> "Panic"]
NoResult == [kind |-> "None"]

MissingStdData(field)  == [error |-> "MissingStdData", field |-> field]
MissingMeanData(field) == [error |-> "MissingMeanData", field |-> field]
DimensionMismatch(expected, actual) ==
    [error |-> "DimensionMismatch", expected |-> expected, actual |-> actual]

(***************************************************************************)
(* crate::matrix::Matrix: a non-empty sequence of rows of equal length.    *)
(***************************************************************************)
Rows(A) == Len(A)
Cols(A) == Len(A[1])
size(A) == <<Rows(A), Cols(A)>>

from_array(values) == <<values>>

RECURSIVE DotCell(_, _, _, _, _)
\* sum over k' <= k of A[i][k'] * B[k'][j], accumulated from 0.0
DotCell(A, B, i, j, k) ==
    IF k = 0 THEN Zero
    ELSE FAdd(DotCell(A, B, i, j, k - 1), FMul(A[i][k], B[k][j]))

dot(A, B) ==
    IF Cols(A) # Rows(B)
    THEN Err(DimensionMismatch(Cols(A), Rows(B)))
    ELSE Ok([i \in 1..Rows(A) |-> [j \in 1..Cols(B) |-> DotCell(A, B, i, j, Cols(A))]])

add(A, bias) ==
    IF Len(bias) # Cols(A)
    THEN Err(DimensionMismatch(Cols(A), Len(bias)))
    ELSE Ok([i \in 1..Rows(A) |-> [j \in 1..Cols(A) |-> FAdd(A[i][j], bias[j])]])

relu(A, alpha) ==
    [i \in 1..Rows(A) |->
        [j \in 1..Cols(A) |-> IF FGeZero(A[i][j]) THEN A[i][j] ELSE FMul(alpha, A[i][j])]]

\* A[row][col] with the source's 0-based indices; out of range panics
InRange(A, row, col) == row + 1 \in 1..Rows(A) /\ col + 1 \in 1..Len(A[row + 1])
Index(A, row, col) == A[row + 1][col + 1]


(***************************************************************************)
(* The values the model draws: feature names, statistics, weights, inputs. *)
(***************************************************************************)
FieldNames == {"a", "b"}
\* "x" is a key no model lists in `fields`
InputKeys  == FieldNames \cup {"x"}
MeanVals   == {F(1), F(-2)}
StdVals    == {F(2), Zero}
InputVals  == {Zero, F(3)}
Alphas     == {Half, Fin(1, -2)}

\* HashMap<String, f32>: a function from the keys it holds
Maps(keys, vals) == UNION {[D -> vals] : D \in SUBSET keys}

FieldSeqs == UNION {[1..n -> FieldNames] : n \in 0..MaxFields}

K0s == { <<<<F(1), F(-1)>>, <<F(2), F(1)>>>>, <<<<F(1), F(-2)>>>> }
B0s == { <<F(1), F(-1)>>, <<F(1)>> }
K1s == { <<<<F(1)>>, <<F(-1)>>>>, <<<<F(1), F(1)>>, <<F(-1), F(2)>>>>, <<<<F(1), F(-2)>>>> }
B1s == { <<F(-3)>>, <<F(1), F(-4)>> }
K2s == { <<<<F(2)>>>>, <<<<F(3), F(-1)>>>>, <<<<F(1)>>, <<F(-1)>>>> }
B2s == { <<F(1)>>, <<F(1), F(1)>> }

WeightsSet ==
    [l0_kernel : K0s, l0_bias : B0s, l1_kernel : K1s, l1_bias : B1s,
     l2_kernel : K2s, l2_bias : B2s]

FieldsDescribes == [mean : Maps(FieldNames, MeanVals), std : Maps(FieldNames, StdVals)]

BaseWeights ==
    [l0_kernel |-> <<<<F(1), F(-1)>>, <<F(2), F(1)>>>>, l0_bias |-> <<F(1), F(-1)>>,
     l1_kernel |-> <<<<F(1)>>, <<F(-1)>>>>,            l1_bias |-> <<F(-3)>>,
     l2_kernel |-> <<<<F(2)>>>>,                       l2_bias |-> <<F(1)>>]
BaseNorm ==
    [mean |-> [f \in FieldNames |-> IF f = "a" THEN F(1) ELSE F(-2)],
     std  |-> [f \in FieldNames |-> F(2)]]
BaseFields == <<"a", "b">>

\* The documents a caller may have loaded: every statistics table and field
\* list under the base weights, and every weight set under the base statistics.
Models ==
    [norm : FieldsDescribes, weights : {BaseWeights}, fields : FieldSeqs, alpha : {Half}]
    \cup
    [norm : {BaseNorm}, weights : WeightsSet, fields : {BaseFields}, alpha : {Half}]
    \cup
    [norm : {BaseNorm}, weights : {BaseWeights}, fields : {BaseFields}, alpha : Alphas]

\* The documents shared by several callers at once
ConcModels ==
    [norm : {BaseNorm, [mean |-> BaseNorm.mean, std |-> [f \in {"a"} |-> F(2)]]},
     weights : {BaseWeights}, fields : {<<"a", "b">>, <<"a">>}, alpha : {Half}]

Matrices ==
    { <<<<F(1), F(-2)>>>>, <<<<F(-1), F(1)>>>>, <<<<F(1)>>>>,
      <<<<F(1), F(-1)>>, <<F(0), F(2)>>>> }
InputMaps == Maps(InputKeys, InputVals)


(***************************************************************************)
(* State.  `model` is the loaded ModelData, shared by the callers.  Each   *)
(* caller runs one call at a time: `op` is the method, `arg` its argument, *)
(* `pc` the statement it is at, `locals` the method's local variables and  *)
(* `ret` the value returned.  `trace` records, for the current call, the   *)
(* fallible lookups and matrix operations in the order they are evaluated. *)
(***************************************************************************)
VARIABLES model, active, pc, op, arg, locals, trace, ret

vars == <<model, active, pc, op, arg, locals, trace, ret>>

Callers == {"c1", "c2"}

NoMatrix == <<>>
NoArg == <<>>
NoLocals ==
    [input |-> NoMatrix,
     a1 |-> NoMatrix, a2 |-> NoMatrix, a3 |-> NoMatrix,
     b1 |-> NoMatrix, b2 |-> NoMatrix, b3 |-> NoMatrix,
     c1 |-> NoMatrix, c2 |-> NoMatrix,
     result |-> <<>>, idx |-> 1]

InitCallers ==
    /\ pc = [t \in Callers |-> "idle"]
    /\ op = [t \in Callers |-> "none"]
    /\ arg = [t \in Callers |-> NoArg]
    /\ locals = [t \in Callers |-> NoLocals]
    /\ trace = [t \in Callers |-> <<>>]
    /\ ret = [t \in Callers |-> NoResult]

\* ModelData::from_reader has produced some model; one caller uses it.
Init ==
    /\ model \in Models
    /\ active = {"c1"}
    /\ InitCallers

\* The same, with every caller using the one model.
InitConc ==
    /\ model \in ConcModels
    /\ active = Callers
    /\ InitCallers

\* The arguments offered to a call.  With several callers at once they come
\* from the smaller sets, which keeps the interleavings enumerable.
ConcMatrices  == { <<<<F(1), F(-2)>>>>, <<<<F(1)>>>> }
ConcInputMaps == Maps({"a", "x"}, {F(3)}) \cup {[f \in {"a"} |-> Zero]}
OfferedMatrices  == IF Cardinality(active) = 1 THEN Matrices ELSE ConcMatrices
OfferedInputMaps == IF Cardinality(active) = 1 THEN InputMaps ELSE ConcInputMaps

Begin(t, method, a, first) ==
    /\ t \in active
    /\ pc[t] = "idle"
    /\ pc' = [pc EXCEPT ![t] = first]
    /\ op' = [op EXCEPT ![t] = method]
    /\ arg' = [arg EXCEPT ![t] = a]
    /\ trace' = [trace EXCEPT ![t] = <<>>]
    /\ ret' = [ret EXCEPT ![t] = NoResult]
    /\ UNCHANGED <<model, active>>

CallPredict(t) ==
    \E input \in OfferedMatrices :
        /\ Begin(t, "predict", input, "a1")
        /\ locals' = [locals EXCEPT ![t] = [NoLocals EXCEPT !.input = input]]

CallNorm(t) ==
    \E input \in OfferedInputMaps :
        /\ Begin(t, "norm", input, "for")
        /\ locals' = [locals EXCEPT ![t] = NoLocals]

CallNormPredict(t) ==
    \E input \in OfferedInputMaps :
        /\ Begin(t, "norm_predict", input, "for")
        /\ locals' = [locals EXCEPT ![t] = NoLocals]

(***************************************************************************)
(* ModelData::norm                                                         *)
(***************************************************************************)
\* (mutant) a missing entry defaults to 1.0
InputGetOrOne(input, field) == IF field \in DOMAIN input THEN input[field] ELSE F(1)

\* (mutant) a missing entry falls back to the entry under another key
InputGetFuzzy(input, field) ==
    IF field \in DOMAIN input THEN input[field]
    ELSE IF "x" \in DOMAIN input THEN input["x"] ELSE Zero

\* input.get(field).unwrap_or(&0.0)
InputGet(input, field) == IF field \in DOMAIN input THEN input[field] ELSE Zero

\* (mutant) a missing std defaults to 1.0 instead of failing
NormFieldStdDefault(m, input, field) ==
    LET x == InputGet(input, field)
        std == IF field \in DOMAIN m.norm.std THEN m.norm.std[field] ELSE F(1)
    IN  IF field \notin DOMAIN m.norm.mean
        THEN [looked |-> << <<"std", field>>, <<"mean", field>> >>,
              res |-> Err(MissingMeanData(field))]
        ELSE [looked |-> << <<"std", field>>, <<"mean", field>> >>,
              res |-> Ok(FDiv(FSub(x, m.norm.mean[field]), std))]

\* (mutant) mean is looked up before std
NormFieldMeanFirst(m, input, field) ==
    LET x == InputGet(input, field)
    IN  IF field \notin DOMAIN m.norm.mean
        THEN [looked |-> << <<"mean", field>> >>,
              res |-> Err(MissingMeanData(field))]
        ELSE IF field \notin DOMAIN m.norm.std
        THEN [looked |-> << <<"mean", field>>, <<"std", field>> >>,
              res |-> Err(MissingStdData(field))]
        ELSE [looked |-> << <<"mean", field>>, <<"std", field>> >>,
              res |-> Ok(FDiv(FSub(x, m.norm.mean[field]), m.norm.std[field]))]

\* One iteration of the loop body for `field`.  res is the Err of the `?`
\* that leaves the function, or Ok of the value pushed; looked lists the
\* statistics lookups the iteration evaluated, in order.
NormField(m, input, field) ==
    LET x == InputGet(input, field)
    IN  IF field \notin DOMAIN m.norm.std
        THEN [looked |-> << <<"std", field>> >>,
              res |-> Err(MissingStdData(field))]
        ELSE IF field \notin DOMAIN m.norm.mean
        THEN [looked |-> << <<"std", field>>, <<"mean", field>> >>,
              res |-> Err(MissingMeanData(field))]
        ELSE [looked |-> << <<"std", field>>, <<"mean", field>> >>,
              res |-> Ok(FDiv(FSub(x, m.norm.mean[field]), m.norm.std[field]))]

\* (mutant) norm_predict goes on to predict with what norm had built when it
\* failed
NormExitUnchecked(t, r, l) ==
    IF op[t] = "norm_predict"
    THEN /\ locals' = [locals EXCEPT ![t] =
                [l EXCEPT !.input = IF r.kind = "Ok" THEN r.val ELSE from_array(l.result)]]
         /\ pc' = [pc EXCEPT ![t] = "a1"]
         /\ UNCHANGED ret
    ELSE /\ locals' = [locals EXCEPT ![t] = l]
         /\ pc' = [pc EXCEPT ![t] = "done"]
         /\ ret' = [ret EXCEPT ![t] = r]

\* norm hands r to its caller: to the outside for op "norm"; inside
\* norm_predict the `?` returns an Err and binds an Ok to `input`.
NormExit(t, r, l) ==
    IF op[t] = "norm_predict" /\ r.kind = "Ok"
    THEN /\ locals' = [locals EXCEPT ![t] = [l EXCEPT !.input = r.val]]
         /\ pc' = [pc EXCEPT ![t] = "a1"]
         /\ UNCHANGED ret
    ELSE /\ locals' = [locals EXCEPT ![t] = l]
         /\ pc' = [pc EXCEPT ![t] = "done"]
         /\ ret' = [ret EXCEPT ![t] = r]

\* (mutant) the value is put in front
PushFront(result, res) == <<res>> \o result

\* result.push(res)
Push(result, res) == Append(result, res)

\* (mutant) `result` is one buffer shared by the callers
NormIterShared(t) ==
    /\ t \in active
    /\ pc[t] = "for"
    /\ locals[t].idx <= Len(model.fields)
    /\ LET field == model.fields[locals[t].idx]
           it == NormField(model, arg[t], field)
           r == it.res
       IN  /\ trace' = [trace EXCEPT ![t] = @ \o it.looked]
           /\ IF r.kind = "Err"
              THEN NormExit(t, r, locals[t])
              ELSE /\ locals' = [u \in Callers |->
                                   IF u = t
                                   THEN [locals[u] EXCEPT !.result = Push(@, r.val),
                                                          !.idx = @ + 1]
                                   ELSE [locals[u] EXCEPT !.result = Push(@, r.val)]]
                   /\ UNCHANGED <<pc, ret>>
    /\ UNCHANGED <<model, active, op, arg>>

NormIter(t) ==
    /\ t \in active
    /\ pc[t] = "for"
    /\ locals[t].idx <= Len(model.fields)
    /\ LET field == model.fields[locals[t].idx]
           it == NormField(model, arg[t], field)
           r == it.res
       IN  /\ trace' = [trace EXCEPT ![t] = @ \o it.looked]
           /\ IF r.kind = "Err"
              THEN NormExit(t, r, locals[t])
              ELSE /\ locals' = [locals EXCEPT ![t].result = Push(@, r.val),
                                               ![t].idx = @ + 1]
                   /\ UNCHANGED <<pc, ret>>
    /\ UNCHANGED <<model, active, op, arg>>

NormReturn(t) ==
    /\ t \in active
    /\ pc[t] = "for"
    /\ locals[t].idx > Len(model.fields)
    /\ NormExit(t, Ok(from_array(locals[t].result)), locals[t])
    /\ UNCHANGED <<model, active, op, arg, trace>>


(***************************************************************************)
(* ModelData::predict, one action per statement.                           *)
(***************************************************************************)
\* (mutant) the error is wrapped with the statement it came from
TryLabelled(t, r, v, next) ==
    IF r.kind = "Err"
    THEN /\ ret' = [ret EXCEPT ![t] = Err([error |-> "Predict", stage |-> v, cause |-> r.err])]
         /\ pc' = [pc EXCEPT ![t] = "done"]
         /\ UNCHANGED locals
    ELSE /\ locals' = [locals EXCEPT ![t][v] = r.val]
         /\ pc' = [pc EXCEPT ![t] = next]
         /\ UNCHANGED ret

\* `let v = r?;` : an Err leaves predict with that error, an Ok is bound to
\* the local `v` and control moves to the statement at `next`.
Try(t, r, v, next) ==
    IF r.kind = "Err"
    THEN /\ ret' = [ret EXCEPT ![t] = r]
         /\ pc' = [pc EXCEPT ![t] = "done"]
         /\ UNCHANGED locals
    ELSE /\ locals' = [locals EXCEPT ![t][v] = r.val]
         /\ pc' = [pc EXCEPT ![t] = next]
         /\ UNCHANGED ret

Fallible(t, at, step, r, v, next) ==
    /\ t \in active
    /\ pc[t] = at
    /\ trace' = [trace EXCEPT ![t] = Append(@, step)]
    /\ Try(t, r, v, next)
    /\ UNCHANGED <<model, active, op, arg>>

Activation(t, at, from, v, next) ==
    /\ t \in active
    /\ pc[t] = at
    /\ locals' = [locals EXCEPT ![t][v] = relu(locals[t][from], model.alpha)]
    /\ pc' = [pc EXCEPT ![t] = next]
    /\ UNCHANGED <<model, active, op, arg, trace, ret>>

PredictA1(t) ==
    Fallible(t, "a1", <<"dot", "l0_kernel">>,
             dot(locals[t].input, model.weights.l0_kernel), "a1", "a2")
PredictA2(t) ==
    Fallible(t, "a2", <<"add", "l0_bias">>,
             add(locals[t].a1, model.weights.l0_bias), "a2", "a3")
PredictA3(t) == Activation(t, "a3", "a2", "a3", "b1")

PredictB1(t) ==
    Fallible(t, "b1", <<"dot", "l1_kernel">>,
             dot(locals[t].a3, model.weights.l1_kernel), "b1", "b2")
PredictB2(t) ==
    Fallible(t, "b2", <<"add", "l1_bias">>,
             add(locals[t].b1, model.weights.l1_bias), "b2", "b3")
PredictB3(t) == Activation(t, "b3", "b2", "b3", "c1")

PredictC1(t) ==
    Fallible(t, "c1", <<"dot", "l2_kernel">>,
             dot(locals[t].b3, model.weights.l2_kernel), "c1", "c2")
PredictC2(t) ==
    Fallible(t, "c2", <<"add", "l2_bias">>,
             add(locals[t].c1, model.weights.l2_bias), "c2", "ok")

\* (mutant) the activation is applied to the last layer as well
PredictReturnActivated(t) ==
    /\ t \in active
    /\ pc[t] = "ok"
    /\ ret' = [ret EXCEPT ![t] = Ok(Index(relu(locals[t].c2, model.alpha), 0, 0))]
    /\ pc' = [pc EXCEPT ![t] = "done"]
    /\ UNCHANGED <<model, active, op, arg, locals, trace>>

\* Ok(c2[0][0])
PredictReturn(t) ==
    /\ t \in active
    /\ pc[t] = "ok"
    /\ ret' = [ret EXCEPT ![t] = IF InRange(locals[t].c2, 0, 0)
                                 THEN Ok(Index(locals[t].c2, 0, 0))
                                 ELSE Panic]
    /\ pc' = [pc EXCEPT ![t] = "done"]
    /\ UNCHANGED <<model, active, op, arg, locals, trace>>

\* The caller takes the returned value; the call's frame is gone.
Finish(t) ==
    /\ t \in active
    /\ pc[t] = "done"
    /\ pc' = [pc EXCEPT ![t] = "idle"]
    /\ op' = [op EXCEPT ![t] = "none"]
    /\ arg' = [arg EXCEPT ![t] = NoArg]
    /\ locals' = [locals EXCEPT ![t] = NoLocals]
    /\ trace' = [trace EXCEPT ![t] = <<>>]
    /\ ret' = [ret EXCEPT ![t] = NoResult]
    /\ UNCHANGED <<model, active>>

Next ==
    \E t \in Callers :
        \/ CallPredict(t)
        \/ CallNorm(t)
        \/ CallNormPredict(t)
        \/ NormIter(t)
        \/ NormReturn(t)
        \/ PredictA1(t)
        \/ PredictA2(t)
        \/ PredictA3(t)
        \/ PredictB1(t)
        \/ PredictB2(t)
        \/ PredictB3(t)
        \/ PredictC1(t)
        \/ PredictC2(t)
        \/ PredictReturn(t)
        \/ Finish(t)

Spec == Init /\ [][Next]_vars

SpecConc == InitConc /\ [][Next]_vars


(***************************************************************************)
(* What a call computes, in closed form: the properties below compare the  *)
(* values the step-by-step actions return with these.                      *)
(***************************************************************************)
Done(t, method) == pc[t] = "done" /\ op[t] = method

PredictSteps ==
    << <<"dot", "l0_kernel">>, <<"add", "l0_bias">>,
       <<"dot", "l1_kernel">>, <<"add", "l1_bias">>,
       <<"dot", "l2_kernel">>, <<"add", "l2_bias">> >>

\* The six fallible steps on input x: `steps` is how many of them are
\* evaluated, `res` the first Err among them or else Ok of the last matrix.
PredictChain(m, x) ==
    LET w  == m.weights
        r1 == dot(x, w.l0_kernel)
        r2 == add(r1.val, w.l0_bias)
        r3 == dot(relu(r2.val, m.alpha), w.l1_kernel)
        r4 == add(r3.val, w.l1_bias)
        r5 == dot(relu(r4.val, m.alpha), w.l2_kernel)
        r6 == add(r5.val, w.l2_bias)
    IN  IF r1.kind = "Err" THEN [steps |-> 1, res |-> r1]
        ELSE IF r2.kind = "Err" THEN [steps |-> 2, res |-> r2]
        ELSE IF r3.kind = "Err" THEN [steps |-> 3, res |-> r3]
        ELSE IF r4.kind = "Err" THEN [steps |-> 4, res |-> r4]
        ELSE IF r5.kind = "Err" THEN [steps |-> 5, res |-> r5]
        ELSE [steps |-> 6, res |-> r6]

PredictAlone(m, x) ==
    LET c == PredictChain(m, x).res
    IN  IF c.kind = "Err" THEN c ELSE Ok(c.val[1][1])

\* Positions of `fields` whose field lacks a statistic
Lacking(m) ==
    {i \in 1..Len(m.fields) :
        m.fields[i] \notin DOMAIN m.norm.std \/ m.fields[i] \notin DOMAIN m.norm.mean}
FirstLacking(m) == CHOOSE i \in Lacking(m) : \A j \in Lacking(m) : i <= j
FirstError(m) ==
    LET f == m.fields[FirstLacking(m)]
    IN  IF f \notin DOMAIN m.norm.std THEN MissingStdData(f) ELSE MissingMeanData(f)

Standardized(m, v, f) == FDiv(FSub(v, m.norm.mean[f]), m.norm.std[f])

NormAlone(m, input) ==
    IF Lacking(m) # {} THEN Err(FirstError(m))
    ELSE Ok(<< [i \in 1..Len(m.fields) |->
                 Standardized(m, IF m.fields[i] \in DOMAIN input
                                 THEN input[m.fields[i]] ELSE Zero, m.fields[i])] >>)

NormPredictAlone(m, input) ==
    LET n == NormAlone(m, input)
    IN  IF n.kind = "Err" THEN n ELSE PredictAlone(m, n.val)

RunAlone(m, method, a) ==
    CASE method = "predict" -> PredictAlone(m, a)
      [] method = "norm" -> NormAlone(m, a)
      [] method = "norm_predict" -> NormPredictAlone(m, a)

(***************************************************************************)
(* C1                                                                      *)
(***************************************************************************)
SixOpsSucceed(m, x) == PredictChain(m, x).res.kind = "Ok"

Composed(m, x) ==
    LET w == m.weights
    IN  add(dot(relu(add(dot(relu(add(dot(x, w.l0_kernel).val, w.l0_bias).val,
                                  m.alpha),
                             w.l1_kernel).val, w.l1_bias).val,
                     m.alpha),
                w.l2_kernel).val, w.l2_bias).val

\* C1: when all six matrix operations succeed on the input, predict returns
\* cell [0][0] of add(dot(relu(add(dot(relu(add(dot(input, l0_kernel),
\* l0_bias), alpha), l1_kernel), l1_bias), alpha), l2_kernel), l2_bias):
\* layers 0, 1, 2 in order, leaky ReLU with the model's alpha after layers 0
\* and 1 and not after layer 2.
C1_PredictIsComposition ==
    \A t \in Callers :
        Done(t, "predict") /\ SixOpsSucceed(model, arg[t])
            => ret[t] = Ok(Index(Composed(model, arg[t]), 0, 0))

\* a predict that returned a negative scalar after both activations changed
\* a negative cell
C1_Witness ==
    \E t \in Callers :
        /\ Done(t, "predict") /\ SixOpsSucceed(model, arg[t])
        /\ locals[t].a3 # locals[t].a2
        /\ locals[t].b3 # locals[t].b2
        /\ ret[t].kind = "Ok" /\ ~FGeZero(ret[t].val)


(***************************************************************************)
(* C2, C3, C4, C9, C10: ModelData::norm                                    *)
(***************************************************************************)
\* C2: when the statistics cover all of `fields`, norm returns a single-row
\* matrix with exactly fields.len() columns, and column i is
\* (v - mean[fields[i]]) / std[fields[i]] for the value v the input holds
\* for fields[i]: the columns are in `fields` order.
C2_NormColumnsInFieldsOrder ==
    \A t \in Callers :
        Done(t, "norm") /\ Lacking(model) = {}
            => /\ ret[t].kind = "Ok"
               /\ size(ret[t].val) = <<1, Len(model.fields)>>
               /\ \A i \in 1..Len(model.fields) :
                     model.fields[i] \in DOMAIN arg[t]
                        => ret[t].val[1][i] =
                             Standardized(model, arg[t][model.fields[i]], model.fields[i])

\* a norm of two different supplied fields whose columns differ
C2_Witness ==
    \E t \in Callers :
        /\ Done(t, "norm") /\ Lacking(model) = {}
        /\ Len(model.fields) = 2 /\ model.fields[1] # model.fields[2]
        /\ {model.fields[1], model.fields[2]} \subseteq DOMAIN arg[t]
        /\ ret[t].kind = "Ok" /\ ret[t].val[1][1] # ret[t].val[1][2]
        /\ arg[t][model.fields[1]] = arg[t][model.fields[2]]

\* the input map with f added, mapped to 0.0
Extended(input, f) ==
    [k \in DOMAIN input \cup {f} |-> IF k = f THEN Zero ELSE input[k]]

\* C3: for a field f of `fields` that has both statistics and that the input
\* map does not hold, norm does not fail on f, f's column is
\* (0.0 - mean[f]) / std[f], and the result is that of the input map
\* extended with f mapped to 0.0.
C3_MissingInputIsZero ==
    \A t \in Callers :
        Done(t, "norm") =>
            \A i \in 1..Len(model.fields) :
                LET f == model.fields[i]
                IN  f \notin DOMAIN arg[t] /\ f \in DOMAIN model.norm.std
                                           /\ f \in DOMAIN model.norm.mean
                      => /\ ret[t].kind = "Err" => ret[t].err.field # f
                         /\ ret[t].kind = "Ok" =>
                               ret[t].val[1][i] = Standardized(model, Zero, f)
                         /\ ret[t] = NormAlone(model, Extended(arg[t], f))

\* a norm that succeeded on an input lacking one of the fields
C3_Witness ==
    \E t \in Callers :
        /\ Done(t, "norm") /\ ret[t].kind = "Ok"
        /\ \E i \in 1..Len(model.fields) :
              /\ model.fields[i] \notin DOMAIN arg[t]
              /\ ret[t].val[1][i].cls = "Finite"
              /\ ret[t].val[1][i] # Zero

\* C4: when some field of `fields` lacks a mean or a std entry, norm fails on
\* every input with MissingStdData or MissingMeanData carrying the name of a
\* field that lacks that statistic, and returns no matrix.
C4_MissingStatisticFails ==
    \A t \in Callers :
        Done(t, "norm") /\ Lacking(model) # {}
            => /\ ret[t].kind = "Err"
               /\ ret[t].err.error \in {"MissingStdData", "MissingMeanData"}
               /\ \E i \in Lacking(model) : ret[t].err.field = model.fields[i]
               /\ ret[t].err.error = "MissingStdData"
                     => ret[t].err.field \notin DOMAIN model.norm.std
               /\ ret[t].err.error = "MissingMeanData"
                     => ret[t].err.field \notin DOMAIN model.norm.mean

\* a norm that failed although the input supplies the field named
C4_Witness ==
    \E t \in Callers :
        /\ Done(t, "norm") /\ Lacking(model) # {}
        /\ ret[t].kind = "Err"
        /\ ret[t].err.field \in DOMAIN arg[t]

RECURSIVE LookupsUpTo(_, _)
\* std then mean of each of the first k fields
LookupsUpTo(m, k) ==
    IF k = 0 THEN <<>>
    ELSE LookupsUpTo(m, k - 1) \o << <<"std", m.fields[k]>>, <<"mean", m.fields[k]>> >>

\* C10: norm reports the first field in `fields` order that lacks a
\* statistic and looks nothing up for the fields after it; std is looked up
\* before mean, so a field lacking both gives MissingStdData.
C10_FirstMissingStdBeforeMean ==
    \A t \in Callers :
        Done(t, "norm") /\ Lacking(model) # {}
            => LET i == FirstLacking(model)
                   f == model.fields[i]
               IN  /\ ret[t] = Err(FirstError(model))
                   /\ f \notin DOMAIN model.norm.std
                         => /\ ret[t].err = MissingStdData(f)
                            /\ trace[t] = LookupsUpTo(model, i - 1) \o << <<"std", f>> >>
                   /\ f \in DOMAIN model.norm.std
                         => /\ ret[t].err = MissingMeanData(f)
                            /\ trace[t] = LookupsUpTo(model, i)

\* the first field lacks only its mean and the second, another field, lacks
\* its std
C10_Witness ==
    \E t \in Callers :
        /\ Done(t, "norm") /\ Len(model.fields) = 2
        /\ model.fields[1] # model.fields[2]
        /\ model.fields[1] \in DOMAIN model.norm.std
        /\ model.fields[1] \notin DOMAIN model.norm.mean
        /\ model.fields[2] \notin DOMAIN model.norm.std
        /\ ret[t] = Err(MissingMeanData(model.fields[1]))

AgreeOnFields(m, i1, i2) ==
    \A k \in 1..Len(m.fields) :
        LET f == m.fields[k]
        IN  /\ f \in DOMAIN i1 <=> f \in DOMAIN i2
            /\ f \in DOMAIN i1 => i1[f] = i2[f]

\* C9: two input maps that agree on the presence and value of every key in
\* `fields` give the same norm result; entries under other keys are ignored.
C9_OtherKeysIgnored ==
    \A t1, t2 \in Callers :
        Done(t1, "norm") /\ Done(t2, "norm") /\ AgreeOnFields(model, arg[t1], arg[t2])
            => ret[t1] = ret[t2]

\* two finished norms, one given a key outside `fields` instead of a field
C9_Witness ==
    \E t1, t2 \in Callers :
        /\ Done(t1, "norm") /\ Done(t2, "norm")
        /\ AgreeOnFields(model, arg[t1], arg[t2])
        /\ "x" \in DOMAIN arg[t1] /\ "x" \notin DOMAIN arg[t2]
        /\ \E k \in 1..Len(model.fields) : model.fields[k] \notin DOMAIN arg[t1]
        /\ ret[t1].kind = "Ok"

(***************************************************************************)
(* C5, C6: ModelData::predict                                              *)
(***************************************************************************)
\* C5: predict evaluates dot(l0_kernel), add(l0_bias), dot(l1_kernel),
\* add(l1_bias), dot(l2_kernel), add(l2_bias) in this order; when one fails
\* predict returns that step's error as it is, evaluates no later step and
\* returns no scalar.
C5_FirstFailurePropagates ==
    \A t \in Callers :
        Done(t, "predict") =>
            LET c == PredictChain(model, arg[t])
            IN  /\ trace[t] = SubSeq(PredictSteps, 1, c.steps)
                /\ c.res.kind = "Err" => ret[t] = c.res
                /\ c.res.kind = "Ok" => ret[t].kind # "Err"

\* a predict that failed at the fourth step, add(l1_bias)
C5_Witness ==
    \E t \in Callers :
        /\ Done(t, "predict")
        /\ ret[t].kind = "Err" /\ ret[t].err.error = "DimensionMismatch"
        /\ Len(trace[t]) = 4

\* C6: whenever predict returns a scalar, the output of the third stage is a
\* 1x1 matrix.
C6_ScalarFromOneByOne ==
    \A t \in Callers :
        Done(t, "predict") /\ ret[t].kind = "Ok" => size(locals[t].c2) = <<1, 1>>

(***************************************************************************)
(* C7: ModelData::norm_predict                                             *)
(***************************************************************************)
\* C7: norm_predict(input) is predict(norm(input)): norm's error is returned
\* as it is and predict is not evaluated; otherwise predict's error or
\* scalar for the matrix norm produced is returned as it is.
C7_NormPredictComposes ==
    \A t \in Callers :
        Done(t, "norm_predict") =>
            LET n == NormAlone(model, arg[t])
            IN  IF n.kind = "Err"
                THEN /\ ret[t] = n
                     /\ \A k \in 1..Len(trace[t]) : trace[t][k][1] \in {"std", "mean"}
                     /\ locals[t].input = NoMatrix
                ELSE /\ locals[t].input = n.val
                     /\ ret[t] = PredictAlone(model, n.val)

\* a norm_predict that returned predict's scalar
C7_Witness ==
    \E t \in Callers :
        /\ Done(t, "norm_predict")
        /\ ret[t].kind = "Ok"
        /\ Len(trace[t]) = 2 * Len(model.fields) + 6

(***************************************************************************)
(* C8: callers sharing the model                                           *)
(***************************************************************************)
ReturnsAsAlone ==
    \A t \in Callers : pc[t] = "done" => ret[t] = RunAlone(model, op[t], arg[t])

\* C8: with callers running norm, predict and norm_predict interleaved on
\* one model, no step changes the model and every call returns what it
\* returns when run alone on the same model and input.
C8_SharedModelPure == [][model' = model]_vars /\ []ReturnsAsAlone

\* both callers have returned, one from norm_predict and one from predict
C8_Witness ==
    /\ Done("c1", "norm_predict") /\ Done("c2", "predict")
    /\ ret["c1"].kind = "Ok" /\ ret["c2"].kind = "Ok"

=============================================================================
